---- MODULE Spec2Model ----
(***************************************************************************)
(* A model of the Sobey Template-1/Template-2 PDF parser (src/main.py).    *)
(*                                                                         *)
(* Texts are sequences of one-character strings.  The regular expressions *)
(* of the source are transcribed as pattern trees and matched by a        *)
(* backtracking matcher that tries alternatives in the order Python's re  *)
(* module tries them (greedy: longest first, lazy: shortest first, an      *)
(* alternation: left to right), so that captures are those of the source.  *)
(***************************************************************************)
EXTENDS Integers, Sequences, FiniteSets, TLC

(***************************************************************************)
(* Characters                                                              *)
(***************************************************************************)
Digits == {"0", "1", "2", "3", "4", "5", "6", "7", "8", "9"}

UpperSeq ==
  <<"A", "B", "C", "D", "E", "F", "G", "H", "I", "J", "K", "L", "M",
    "N", "O", "P", "Q", "R", "S", "T", "U", "V", "W", "X", "Y", "Z">>

LowerSeq ==
  <<"a", "b", "c", "d", "e", "f", "g", "h", "i", "j", "k", "l", "m",
    "n", "o", "p", "q", "r", "s", "t", "u", "v", "w", "x", "y", "z">>

UpperSet == {UpperSeq[i] : i \in DOMAIN UpperSeq}

LowerSet == {LowerSeq[i] : i \in DOMAIN LowerSeq}

\* str.lower() / str.upper() of one character
LowerOf(c) ==
  IF c \in UpperSet THEN LowerSeq[CHOOSE i \in DOMAIN UpperSeq : UpperSeq[i] = c] ELSE c

UpperOf(c) ==
  IF c \in LowerSet THEN UpperSeq[CHOOSE i \in DOMAIN LowerSeq : LowerSeq[i] = c] ELSE c

\* \s of the re module (the white space the modelled texts use)
SpaceSet == {" ", "\n", "\t", "\r"}

\* \w of the re module
WordSet == UpperSet \cup LowerSet \cup Digits \cup {"_"}

MinOf(S) == CHOOSE x \in S : \A y \in S : x <= y

MaxOf(S) == CHOOSE x \in S : \A y \in S : y <= x

(***************************************************************************)
(* Patterns.  A character class is [neg, cs]: the characters in cs, or     *)
(* (neg) those not in cs.  A pattern is a sequence of items, each a record *)
(* with a tag t:                                                           *)
(*   lit    the literal string w (ci: under re.IGNORECASE)                 *)
(*   cls    one character of class c                                       *)
(*   rep    min..max repetitions (max = -1: unbounded) of class c,         *)
(*          greedy or lazy                                                 *)
(*   alt    the patterns ps as alternatives, tried left to right           *)
(*   open, close   the start and the end of capturing group n              *)
(*   look   the lookahead (?=p)                                            *)
(*   bol    ^ without re.MULTILINE                                         *)
(*   eol    $ without re.MULTILINE;  eolm  $ with re.MULTILINE             *)
(***************************************************************************)
Cls(S) == [neg |-> FALSE, cs |-> S]

NCls(S) == [neg |-> TRUE, cs |-> S]

D == Cls(Digits)          \* \d

S_ == Cls(SpaceSet)       \* \s

W == Cls(WordSet)         \* \w

Dot == NCls({"\n"})       \* . without re.DOTALL

AnyCh == NCls({})         \* . with re.DOTALL, [\s\S]

Alpha == Cls(UpperSet \cup LowerSet)   \* [A-Za-z], [A-Z] under re.IGNORECASE

Lit(w) == <<[t |-> "lit", w |-> w, ci |-> FALSE]>>

LitI(w) == <<[t |-> "lit", w |-> w, ci |-> TRUE]>>

Ch(c) == Lit(<<c>>)

One(c) == <<[t |-> "cls", c |-> c]>>

Rep(c, lo, hi, greedy) == <<[t |-> "rep", c |-> c, min |-> lo, max |-> hi, greedy |-> greedy]>>

Star(c) == Rep(c, 0, -1, TRUE)

Plus(c) == Rep(c, 1, -1, TRUE)

LazyStar(c) == Rep(c, 0, -1, FALSE)

LazyPlus(c) == Rep(c, 1, -1, FALSE)

Opt(c) == Rep(c, 0, 1, TRUE)

Times(c, n) == Rep(c, n, n, TRUE)

Alt(ps) == <<[t |-> "alt", ps |-> ps]>>

Grp(n, p) == <<[t |-> "open", n |-> n]>> \o p \o <<[t |-> "close", n |-> n]>>

Look(p) == <<[t |-> "look", p |-> p]>>

Bol == <<[t |-> "bol"]>>

Eol == <<[t |-> "eol"]>>

EolM == <<[t |-> "eolm"]>>

RECURSIVE CatFrom(_, _)

CatFrom(ps, k) == IF k > Len(ps) THEN <<>> ELSE ps[k] \o CatFrom(ps, k + 1)

\* the patterns ps one after the other
Cat(ps) == CatFrom(ps, 1)

(***************************************************************************)
(* The matcher.  Positions are 1-based; a capture is <<start, end>> with   *)
(* end exclusive, <<0, 0>> when the group did not take part.               *)
(*                                                                         *)
(* The re module matches by backtracking: at every choice it takes the     *)
(* first alternative, in its order of preference (greedy: longest first,   *)
(* lazy: shortest first, an alternation: left to right), from which the    *)
(* rest of the pattern can still match.  Whether the rest can match        *)
(* depends on the item and the position alone, so CanMatch first computes, *)
(* item by item from the last, the positions from which the rest matches,  *)
(* and Walk then follows the preferred choices from the start.             *)
(***************************************************************************)
NGroups == 8

NoCaps == [n \in 1..NGroups |-> <<0, 0>>]

NoMatch == [ok |-> FALSE, start |-> 0, end |-> 0, caps |-> NoCaps]

InCls(c, ch) == IF c.neg THEN ch \notin c.cs ELSE ch \in c.cs

\* how many characters from i on are in class c, at most max (max = -1: any number)
RunLen(c, s, i, max) ==
  LET left  == Len(s) - i + 1
      limit == IF max < 0 \/ max > left THEN left ELSE max
  IN  CHOOSE k \in 0..limit :
        /\ k = limit \/ ~InCls(c, s[i + k])
        /\ \A q \in 0..(k - 1) : InCls(c, s[i + q])

\* how many characters before e are in class c, at most max (max = -1: any number)
BackRun(c, s, e, max) ==
  LET limit == IF max < 0 \/ max > e - 1 THEN e - 1 ELSE max
  IN  CHOOSE k \in 0..limit :
        /\ k = limit \/ ~InCls(c, s[e - k - 1])
        /\ \A q \in 1..k : InCls(c, s[e - q])

\* the literal of item h stands at position i
LitAt(h, s, i) ==
  /\ i + Len(h.w) - 1 <= Len(s)
  /\ \A q \in 1..Len(h.w) :
       IF h.ci THEN LowerOf(s[i + q - 1]) = LowerOf(h.w[q]) ELSE s[i + q - 1] = h.w[q]

\* the lengths a repetition h may take at position i so that what follows ends in next
RepLens(h, s, i, next) ==
  {len \in h.min..RunLen(h.c, s, i, h.max) : (i + len) \in next}

AtEol(s, i) == i = Len(s) + 1 \/ (i = Len(s) /\ s[i] = "\n")

AtEolM(s, i) == i = Len(s) + 1 \/ (i <= Len(s) /\ s[i] = "\n")

AllPos(s) == 1..(Len(s) + 1)

RECURSIVE CanAcc(_, _, _, _)

\* the positions from which item h, and then what follows, matches, given the set
\* next of positions from which what follows matches
CanStep(h, s, next) ==
  CASE h.t = "lit" -> {i \in {e - Len(h.w) : e \in next} : i >= 1 /\ LitAt(h, s, i)}
    [] h.t = "cls" -> {i \in {e - 1 : e \in next} : i >= 1 /\ InCls(h.c, s[i])}
    [] h.t = "rep" ->
         IF h.min = 0 /\ next = AllPos(s) THEN next
         ELSE UNION {{e - len : len \in h.min..BackRun(h.c, s, e, h.max)} : e \in next}
    [] h.t = "alt" ->
         UNION {Head(CanAcc(h.ps[a], s, Len(h.ps[a]), <<next>>)) : a \in DOMAIN h.ps}
    [] h.t = "look" -> next \cap Head(CanAcc(h.p, s, Len(h.p), <<1..(Len(s) + 1)>>))
    [] h.t = "bol" -> next \cap {1}
    [] h.t = "eol" -> {i \in next : AtEol(s, i)}
    [] h.t = "eolm" -> {i \in next : AtEolM(s, i)}
    [] OTHER -> next

\* acc is <<P_(j+1), ..., P_m, target>>; the items j, j-1, ..., 1 are put before it
CanAcc(p, s, j, acc) ==
  IF j = 0 \/ Len(acc) = 0 THEN acc
  ELSE CanAcc(p, s, j - 1, <<CanStep(p[j], s, Head(acc))>> \o acc)

\* <<P_1, ..., P_m, target>>: P_k is the set of positions from which the items
\* k..m of the pattern p match up to a position in target
CanMatch(p, s, target) == CanAcc(p, s, Len(p), <<target>>)

RECURSIVE Walk(_, _, _, _, _)

\* item h taken at st.end, where the match stands, so that what follows can match
WalkStep(h, s, next, st) ==
  CASE h.t = "lit" -> [st EXCEPT !.end = @ + Len(h.w)]
    [] h.t = "cls" -> [st EXCEPT !.end = @ + 1]
    [] h.t = "rep" ->
         LET Take(lens) == IF h.greedy THEN MaxOf(lens) ELSE MinOf(lens)
         IN  [st EXCEPT !.end = @ + Take(RepLens(h, s, st.end, next))]
    [] h.t = "alt" ->
         LET Take(a) == Walk(h.ps[a], s, CanMatch(h.ps[a], s, next), 1, st)
         IN  Take(MinOf({b \in DOMAIN h.ps :
                           st.end \in Head(CanAcc(h.ps[b], s, Len(h.ps[b]), <<next>>))}))
    [] h.t = "open" -> [st EXCEPT !.caps[h.n] = <<st.end, 0>>]
    [] h.t = "close" -> [st EXCEPT !.caps[h.n] = <<st.caps[h.n][1], st.end>>]
    [] OTHER -> st

\* the match of the items j.. of p from position st.end, which is in can[j]
Walk(p, s, can, j, st) ==
  IF j > Len(p) \/ st.end < 0 THEN st
  ELSE Walk(p, s, can, j + 1, WalkStep(p[j], s, can[j + 1], st))

MatchAt(p, s, can, i) ==
  Walk(p, s, can, 1, [ok |-> TRUE, start |-> i, end |-> i, caps |-> NoCaps])

\* the leftmost match starting at from or later, given can = CanMatch(p, s, AllPos(s))
MatchFrom(p, s, can, from) ==
  LET starts == {i \in can[1] : i >= from}
  IN  IF starts = {} THEN NoMatch ELSE MatchAt(p, s, can, MinOf(starts))

\* pattern.search(s)
Search(p, s) == MatchFrom(p, s, CanMatch(p, s, AllPos(s)), 1)

\* pattern.match(s): a match at the start of s
MatchAtStart(p, s) ==
  LET At(can) == IF 1 \in can[1] THEN MatchAt(p, s, can, 1) ELSE NoMatch
  IN  At(CanMatch(p, s, AllPos(s)))

RECURSIVE FindAcc(_, _, _, _, _)

\* the matches from position from on are appended to acc
FindAcc(p, s, can, from, acc) ==
  LET Found(m) ==
        IF Len(acc) < 0 \/ ~m.ok THEN acc
        ELSE FindAcc(p, s, can, IF m.end = m.start THEN m.end + 1 ELSE m.end, Append(acc, m))
  IN  Found(MatchFrom(p, s, can, from))

\* pattern.finditer(s): the non-overlapping matches, left to right
FindIter(p, s) == FindAcc(p, s, CanMatch(p, s, AllPos(s)), 1, <<>>)

\* match.group(n)
Group(s, m, n) == SubSeq(s, m.caps[n][1], m.caps[n][2] - 1)

(***************************************************************************)
(* str.strip() and re.sub(r'\s+', ' ', s)                                  *)
(***************************************************************************)
Strip(s) ==
  LET keep == {i \in DOMAIN s : s[i] \notin SpaceSet}
  IN  IF keep = {} THEN <<>>
      ELSE SubSeq(s, MinOf(keep), CHOOSE x \in keep : \A y \in keep : y <= x)

\* re.sub(r'\s+', ' ', s): every run of white space becomes one space
CollapseWs(s) ==
  LET keep    == {i \in DOMAIN s : s[i] \notin SpaceSet \/ i = 1 \/ s[i - 1] \notin SpaceSet}
      rank(i) == Cardinality({j \in keep : j <= i})
      at(k)   == CHOOSE i \in keep : rank(i) = k
  IN  [k \in 1..Cardinality(keep) |-> IF s[at(k)] \in SpaceSet THEN " " ELSE s[at(k)]]

(***************************************************************************)
(* Literal words of the patterns                                           *)
(***************************************************************************)
W_Pickup == <<"P", "i", "c", "k", "u", "p">>

W_Delivery == <<"D", "e", "l", "i", "v", "e", "r", "y">>

W_Deliver == <<"D", "e", "l", "i", "v", "e", "r">>

W_On == <<"O", "n">>

W_StopColon == <<"S", "t", "o", "p", ":">>

W_DestinationColon == <<"D", "e", "s", "t", "i", "n", "a", "t", "i", "o", "n", ":">>

W_StopLocationMemo == <<"S", "t", "o", "p", " ", "L", "o", "c", "a", "t", "i", "o", "n", " ", "M", "e", "m", "o", ":">>

W_Cube == <<"C", "u", "b", "e">>

W_Weight == <<"W", "e", "i", "g", "h", "t">>

W_Pieces == <<"P", "i", "e", "c", "e", "s">>

W_PO == <<"-", "P", "O", "-">>

W_Ref == <<"R", "e", "f">>

W_NumberColon == <<"N", "u", "m", "b", "e", "r", ":">>

W_Pallet == <<"P", "a", "l", "l", "e", "t">>

W_CountColon == <<"C", "o", "u", "n", "t", ":">>

W_AM == <<"A", "M">>

W_PM == <<"P", "M">>

\* the value of one decimal digit
Digit(c) == CHOOSE n \in 0..9 : <<"0", "1", "2", "3", "4", "5", "6", "7", "8", "9">>[n + 1] = c

RECURSIVE IntOf(_)

\* int(s) of a string of digits
IntOf(s) == IF s = <<>> THEN 0 ELSE 10 * IntOf(SubSeq(s, 1, Len(s) - 1)) + Digit(s[Len(s)])

(***************************************************************************)
(* convert_date_format (src/main.py 67-82)                                 *)
(***************************************************************************)
MonthNames ==
  << <<"j", "a", "n">>, <<"f", "e", "b">>, <<"m", "a", "r">>, <<"a", "p", "r">>, <<"m", "a", "y">>, <<"j", "u", "n">>,
     <<"j", "u", "l">>, <<"a", "u", "g">>, <<"s", "e", "p">>, <<"o", "c", "t">>, <<"n", "o", "v">>, <<"d", "e", "c">> >>

\* the regular expression datetime.strptime compiles, with re.IGNORECASE, from the
\* format "%b %d, %Y %I:%M:%S %p":
\*   (?P<b>jan|...|dec)\s+(?P<d>3[0-1]|[1-2]\d|0[1-9]|[1-9]| [1-9]),\s+(?P<Y>\d\d\d\d)\s+
\*   (?P<I>1[0-2]|0[1-9]|[1-9]):(?P<M>[0-5]\d|\d):(?P<S>6[0-1]|[0-5]\d|\d)\s+(?P<p>am|pm)
D19 == Cls(Digits \ {"0"})

StrptimeFormat ==
  Cat(<< Grp(1, Alt([i \in DOMAIN MonthNames |-> LitI(MonthNames[i])])),
          Plus(S_),
          Grp(2, Alt(<< Cat(<<Ch("3"), One(Cls({"0", "1"}))>>),
                        Cat(<<One(Cls({"1", "2"})), One(D)>>),
                        Cat(<<Ch("0"), One(D19)>>),
                        One(D19),
                        Cat(<<Ch(" "), One(D19)>>) >>)),
          Ch(","), Plus(S_),
          Grp(3, Times(D, 4)),
          Plus(S_),
          Grp(4, Alt(<< Cat(<<Ch("1"), One(Cls({"0", "1", "2"}))>>),
                        Cat(<<Ch("0"), One(D19)>>),
                        One(D19) >>)),
          Ch(":"),
          Grp(5, Alt(<< Cat(<<One(Cls({"0", "1", "2", "3", "4", "5"})), One(D)>>), One(D) >>)),
          Ch(":"),
          Grp(6, Alt(<< Cat(<<Ch("6"), One(Cls({"0", "1"}))>>),
                        Cat(<<One(Cls({"0", "1", "2", "3", "4", "5"})), One(D)>>),
                        One(D) >>)),
          Plus(S_),
          Grp(7, Alt(<<LitI(<<"a", "m">>), LitI(<<"p", "m">>)>>)) >>)

LowerStr(s) == [i \in DOMAIN s |-> LowerOf(s[i])]

IsLeap(y) == (y % 4 = 0 /\ y % 100 # 0) \/ y % 400 = 0

DaysInMonth(y, m) ==
  IF m = 2 THEN (IF IsLeap(y) THEN 29 ELSE 28)
  ELSE IF m \in {4, 6, 9, 11} THEN 30 ELSE 31

\* n as decimal digits, zero-padded to at least two (strftime's %d and %m)
DigitCh(n) == <<"0", "1", "2", "3", "4", "5", "6", "7", "8", "9">>[n + 1]

RECURSIVE Decimal(_)

Decimal(n) == IF n < 10 THEN <<DigitCh(n)>> ELSE Decimal(n \div 10) \o <<DigitCh(n % 10)>>

TwoDigits(n) == IF n < 10 THEN <<"0", DigitCh(n)>> ELSE Decimal(n)

\* datetime.strptime(s, "%b %d, %Y %I:%M:%S %p"): the date, or a raised ValueError
strptime(s) ==
  LET ValueError == [raised |-> TRUE, year |-> 0, month |-> 0, day |-> 0]
      Checked(year, month, day, sec) ==
        IF year < 1 \/ day > DaysInMonth(year, month) \/ sec > 59 THEN ValueError
        ELSE [raised |-> FALSE, year |-> year, month |-> month, day |-> day]
      Month(mon) == CHOOSE i \in DOMAIN MonthNames : MonthNames[i] = mon
      Parsed(m) ==
        IF ~m.ok \/ m.end # Len(s) + 1 THEN ValueError
        ELSE Checked(IntOf(Group(s, m, 3)), Month(LowerStr(Group(s, m, 1))),
                     IntOf(Strip(Group(s, m, 2))), IntOf(Group(s, m, 6)))
  IN  Parsed(MatchAtStart(StrptimeFormat, s))

\* date_obj.strftime("%d/%m/%Y")
strftime(d) == TwoDigits(d.day) \o <<"/">> \o TwoDigits(d.month) \o <<"/">> \o Decimal(d.year)

\* date_str is reassigned to its collapsed and stripped form before the parse, and
\* the except branch returns date_str
convert_date_format(date_str) ==
  LET Formatted(cleaned, date_obj) == IF date_obj.raised THEN cleaned ELSE strftime(date_obj)
      Parsed(cleaned) == Formatted(cleaned, strptime(cleaned))
  IN  Parsed(Strip(CollapseWs(date_str)))

(***************************************************************************)
(* extract_vendor_name (src/main.py 84-130)                                *)
(***************************************************************************)
\* ^\d+\s*-\s*(.*?)\s*-\s*\d+
pattern_with_number ==
  Cat(<<Bol, Plus(D), Star(S_), Ch("-"), Star(S_), Grp(1, LazyStar(Dot)),
         Star(S_), Ch("-"), Star(S_), Plus(D)>>)

\* ^(.*?)\s*-\s*\d+\s*-
pattern_no_number ==
  Cat(<<Bol, Grp(1, LazyStar(Dot)), Star(S_), Ch("-"), Star(S_), Plus(D), Star(S_), Ch("-")>>)

\* ^\d+\s*-\s*(.+?)$
simple_pattern ==
  Cat(<<Bol, Plus(D), Star(S_), Ch("-"), Star(S_), Grp(1, LazyPlus(Dot)), Eol>>)

\* an extractor that tries the simple pattern before the name-first pattern
vendor_case_simple_first(full_vendor_string) ==
  LET Case(s) ==
        IF Strip(full_vendor_string) = <<>> THEN 0
        ELSE IF Search(pattern_with_number, s).ok THEN 1
        ELSE IF Search(simple_pattern, s).ok THEN 3
        ELSE IF Search(pattern_no_number, s).ok THEN 2
        ELSE 4
  IN  Case(Strip(CollapseWs(full_vendor_string)))

\* which branch of extract_vendor_name returns: 0 the empty input, 1..3 the three
\* patterns in the order they are tried, 4 the fallback
vendor_case(full_vendor_string) ==
  LET Case(s) ==
        IF Strip(full_vendor_string) = <<>> THEN 0
        ELSE IF Search(pattern_with_number, s).ok THEN 1
        ELSE IF Search(pattern_no_number, s).ok THEN 2
        ELSE IF Search(simple_pattern, s).ok THEN 3
        ELSE 4
  IN  Case(Strip(CollapseWs(full_vendor_string)))

extract_vendor_name(full_vendor_string) ==
  LET Name(s, c) ==
        CASE c = 0 -> <<>>
          [] c = 1 -> Strip(Group(s, Search(pattern_with_number, s), 1))
          [] c = 2 -> Strip(Group(s, Search(pattern_no_number, s), 1))
          [] c = 3 -> Strip(Group(s, Search(simple_pattern, s), 1))
          [] OTHER -> s
  IN  Name(Strip(CollapseWs(full_vendor_string)), vendor_case(full_vendor_string))

(***************************************************************************)
(* extract_shipment_type (src/main.py 132-142)                             *)
(***************************************************************************)
\* [A-Z]{3}-PO-\d{2}-\d{4}-<po_number>\s*\(([^)]+)\)   with re.IGNORECASE
shipment_type_pattern(po_number) ==
  Cat(<<Times(Alpha, 3), LitI(W_PO), Times(D, 2), Ch("-"), Times(D, 4), Ch("-"),
         LitI(po_number), Star(S_), Ch("("), Grp(1, Plus(NCls({")"}))), Ch(")")>>)

extract_shipment_type(text, po_number) ==
  LET Type(m) == IF m.ok THEN Strip(Group(text, m, 1)) ELSE <<>>
  IN  Type(Search(shipment_type_pattern(po_number), text))

(***************************************************************************)
(* detect_template (src/main.py 144-154)                                   *)
(***************************************************************************)
\* Pickup\s*:\s*\w{3}\s+\d{1,2},\s+\d{4}\s+\d{1,2}:\d{2}:\d{2}   (no flags)
template2_pattern ==
  Cat(<<Lit(W_Pickup), Star(S_), Ch(":"), Star(S_), Times(W, 3), Plus(S_),
         Rep(D, 1, 2, TRUE), Ch(","), Plus(S_), Times(D, 4), Plus(S_),
         Rep(D, 1, 2, TRUE), Ch(":"), Times(D, 2), Ch(":"), Times(D, 2)>>)

detect_template(text) ==
  IF Search(template2_pattern, text).ok THEN "Template-2" ELSE "Template-1"

(***************************************************************************)
(* extract_stop_destinations (src/main.py 156-170)                         *)
(***************************************************************************)
\* (?s)Stop:\s*(\d+)\s*Destination:\s*(.*?)\s*Stop Location Memo:   with re.IGNORECASE
stop_pattern ==
  Cat(<<LitI(W_StopColon), Star(S_), Grp(1, Plus(D)), Star(S_), LitI(W_DestinationColon),
         Star(S_), Grp(2, LazyStar(AnyCh)), Star(S_), LitI(W_StopLocationMemo)>>)

\* while len(destinations) < stop_number: destinations.append("")
PadTo(destinations, stop_number) ==
  IF Len(destinations) >= stop_number THEN destinations
  ELSE destinations \o [i \in 1..(stop_number - Len(destinations)) |-> <<>>]

\* destinations[stop_number - 1] = destination, on the padded list: a Python index
\* of -1 (stop_number = 0) is the last element, and an IndexError on the empty list
stop_store(acc, stop_number, destination) ==
  LET padded == PadTo(acc.val, stop_number)
      index  == IF stop_number = 0 THEN Len(padded) ELSE stop_number
  IN  IF index = 0 THEN [raised |-> TRUE, val |-> padded]
      ELSE [raised |-> FALSE, val |-> [padded EXCEPT ![index] = destination]]

RECURSIVE stop_loop(_, _, _, _)

\* the for loop over stop_pattern.finditer(text), from its j-th match on
stop_loop(text, ms, j, acc) ==
  IF acc.raised \/ j > Len(ms) THEN acc
  ELSE stop_loop(text, ms, j + 1,
                 stop_store(acc, IntOf(Group(text, ms[j], 1)), Strip(Group(text, ms[j], 2))))

\* the list of destinations, or raised: the IndexError leaves the function
extract_stop_destinations(text) ==
  stop_loop(text, FindIter(stop_pattern, text), 1, [raised |-> FALSE, val |-> <<>>])

(***************************************************************************)
(* process_template1 (src/main.py 58, 185-254)                             *)
(***************************************************************************)
Upper == Cls(UpperSet)                 \* [A-Z]

Num == Cls(Digits \cup {","})          \* [0-9,]

\* (\d+)\s+-\s+(.*)\s*Cube\s*:\s*([0-9,]+)\s*Weight\s*:\s*([0-9,]+)\s*Pieces\s*:\s*([0-9,]+)\s*
\* [A-Z]{3}-PO-\d{2}-\d{4}-(\d+).*\s+Ref\s*Number:.*\s*Pallet\s*Count:(.*)\s*(.*)
REGEX_TEMPLATE1 ==
  Cat(<<Grp(1, Plus(D)), Plus(S_), Ch("-"), Plus(S_), Grp(2, Star(Dot)), Star(S_),
        Lit(W_Cube), Star(S_), Ch(":"), Star(S_), Grp(3, Plus(Num)), Star(S_),
        Lit(W_Weight), Star(S_), Ch(":"), Star(S_), Grp(4, Plus(Num)), Star(S_),
        Lit(W_Pieces), Star(S_), Ch(":"), Star(S_), Grp(5, Plus(Num)), Star(S_),
        Times(Upper, 3), Lit(W_PO), Times(D, 2), Ch("-"), Times(D, 4), Ch("-"),
        Grp(6, Plus(D)), Star(Dot), Plus(S_), Lit(W_Ref), Star(S_), Lit(W_NumberColon),
        Star(Dot), Star(S_), Lit(W_Pallet), Star(S_), Lit(W_CountColon),
        Grp(7, Star(Dot)), Star(S_), Grp(8, Star(Dot))>>)

\* \d{2}/\d{2}/\d{4}
SlashDate == Cat(<<Times(D, 2), Ch("/"), Times(D, 2), Ch("/"), Times(D, 4)>>)

\* Pickup\s+On\s*:\s*(\d{2}/\d{2}/\d{4})   with re.IGNORECASE
pickup_on_pattern ==
  Cat(<<LitI(W_Pickup), Plus(S_), LitI(W_On), Star(S_), Ch(":"), Star(S_), Grp(1, SlashDate)>>)

\* Deliver\s+On\s*:\s*(\d{2}/\d{2}/\d{4})   with re.IGNORECASE
deliver_on_pattern ==
  Cat(<<LitI(W_Deliver), Plus(S_), LitI(W_On), Star(S_), Ch(":"), Star(S_), Grp(1, SlashDate)>>)

\* <po_number>[\s\S]*?Pallet\s+Count:\s*([^\n|]+?)(?=\s*[|]|\s*Cube|\s*Weight|$)
\* with re.IGNORECASE | re.MULTILINE
po_context_pattern(po_number) ==
  Cat(<<LitI(po_number), LazyStar(AnyCh), LitI(W_Pallet), Plus(S_), LitI(W_CountColon),
        Star(S_), Grp(1, LazyPlus(NCls({"\n", "|"}))),
        Look(Alt(<<Cat(<<Star(S_), Ch("|")>>), Cat(<<Star(S_), LitI(W_Cube)>>),
                   Cat(<<Star(S_), LitI(W_Weight)>>), EolM>>))>>)

\* s.rstrip('|')
RStripBar(s) ==
  LET keep == {i \in DOMAIN s : s[i] # "|"}
  IN  IF keep = {} THEN <<>> ELSE SubSeq(s, 1, MaxOf(keep))

\* the first match's group 1, or ""
FirstGroupOrEmpty(p, text) ==
  LET First(m) == IF m.ok THEN Group(text, m, 1) ELSE <<>>
  IN  First(Search(p, text))

\* a lookup that takes the stop number for the list index
StopOrEmptyShifted(stop_destinations, k) ==
  IF Len(stop_destinations) > k THEN stop_destinations[k + 1] ELSE <<>>

\* stop_destinations[k - 1] if len(stop_destinations) > k - 1 else ""
StopOrEmpty(stop_destinations, k) ==
  IF Len(stop_destinations) > k - 1 THEN stop_destinations[k] ELSE <<>>

\* the description of one Template-1 line item
template1_description(text, match) ==
  LET Unbarred(stripped) == IF stripped # <<>> THEN Strip(RStripBar(stripped)) ELSE stripped
      Described(description, from_context) ==
        IF description # <<>> THEN description ELSE from_context
  IN  Described(Unbarred(Strip(Group(text, match, 7))),
                Strip(FirstGroupOrEmpty(po_context_pattern(Group(text, match, 6)), text)))

\* the record of one Template-1 line item
template1_record(text, match, pickup_date, del_date, ship_from, ship_to) ==
  [template      |-> "Template-1",
   pickup_date   |-> pickup_date,
   del_date      |-> del_date,
   ship_from     |-> ship_from,
   ship_to       |-> ship_to,
   vendor_no     |-> Group(text, match, 1),
   vendor_name   |-> extract_vendor_name(Group(text, match, 2)),
   cubes         |-> Group(text, match, 3),
   weight        |-> Group(text, match, 4),
   pieces        |-> Group(text, match, 5),
   po            |-> Group(text, match, 6),
   shipment_type |-> extract_shipment_type(text, Group(text, match, 6)),
   pallets       |-> <<>>,
   description   |-> template1_description(text, match)]

\* for match in pattern.finditer(text): one record per match
template1_records(text, matches, pickup_date, del_date, ship_from, ship_to) ==
  [k \in 1..Len(matches) |->
     template1_record(text, matches[k], pickup_date, del_date, ship_from, ship_to)]

process_template1(text, stop_destinations) ==
  template1_records(text, FindIter(REGEX_TEMPLATE1, text),
                    FirstGroupOrEmpty(pickup_on_pattern, text),
                    FirstGroupOrEmpty(deliver_on_pattern, text),
                    StopOrEmpty(stop_destinations, 1),
                    StopOrEmpty(stop_destinations, 2))

(***************************************************************************)
(* process_template2 (src/main.py 256-379)                                 *)
(***************************************************************************)
\* (\d{6})\s+-\s+([\s\S]+?)(?=\s*Cube\s*:)\s*Cube\s*:\s*([0-9,]+)\s+Weight\s*:\s*([0-9,]+)\s+
\* Pieces\s*:\s*([0-9,]+)\s+([A-Z]{3}-PO-\d{2}-\d{4}-(\d+))
shipment_pattern ==
  Cat(<<Grp(1, Times(D, 6)), Plus(S_), Ch("-"), Plus(S_), Grp(2, LazyPlus(AnyCh)),
        Look(Cat(<<Star(S_), Lit(W_Cube), Star(S_), Ch(":")>>)),
        Star(S_), Lit(W_Cube), Star(S_), Ch(":"), Star(S_), Grp(3, Plus(Num)), Plus(S_),
        Lit(W_Weight), Star(S_), Ch(":"), Star(S_), Grp(4, Plus(Num)), Plus(S_),
        Lit(W_Pieces), Star(S_), Ch(":"), Star(S_), Grp(5, Plus(Num)), Plus(S_),
        Grp(6, Cat(<<Times(Upper, 3), Lit(W_PO), Times(D, 2), Ch("-"), Times(D, 4), Ch("-"),
                     Grp(7, Plus(D))>>))>>)

\* Pallet\s+Count:\s*([^\n]+?)(?=\s*(?:Pickup|Delivery|$))   with re.MULTILINE | re.DOTALL
pallet_pattern ==
  Cat(<<Lit(W_Pallet), Plus(S_), Lit(W_CountColon), Star(S_), Grp(1, LazyPlus(NCls({"\n"}))),
        Look(Cat(<<Star(S_), Alt(<<Lit(W_Pickup), Lit(W_Delivery), EolM>>)>>))>>)

\* (?:AM|PM) under re.IGNORECASE
AmPm == Alt(<<LitI(W_AM), LitI(W_PM)>>)

\* Pickup\s*:\s*([A-Za-z]{3}\s+\d{1,2},\s+\d{4}\s+\d{1,2}:\d{2}:\d{2}\s*(?:AM|PM))
\* with re.IGNORECASE
pickup_pattern ==
  Cat(<<LitI(W_Pickup), Star(S_), Ch(":"), Star(S_),
        Grp(1, Cat(<<Times(Alpha, 3), Plus(S_), Rep(D, 1, 2, TRUE), Ch(","), Plus(S_),
                     Times(D, 4), Plus(S_), Rep(D, 1, 2, TRUE), Ch(":"), Times(D, 2),
                     Ch(":"), Times(D, 2), Star(S_), AmPm>>))>>)

\* Deliver(?:y)?\s*:\s*([A-Za-z]{3}\s+\d{1,2},\s+\d{4}[\s\S]*?\d{1,2}:\d{2}:\d{2}\s*(?:AM|PM))
\* with re.IGNORECASE
deliver_pattern ==
  Cat(<<LitI(W_Deliver), Opt(Cls({"y", "Y"})), Star(S_), Ch(":"), Star(S_),
        Grp(1, Cat(<<Times(Alpha, 3), Plus(S_), Rep(D, 1, 2, TRUE), Ch(","), Plus(S_),
                     Times(D, 4), LazyStar(AnyCh), Rep(D, 1, 2, TRUE), Ch(":"), Times(D, 2),
                     Ch(":"), Times(D, 2), Star(S_), AmPm>>))>>)

\* -\s*(\d+)\s*-\s*(.+)$
vendor_stop_pattern ==
  Cat(<<Ch("-"), Star(S_), Grp(1, Plus(D)), Star(S_), Ch("-"), Star(S_), Grp(2, Plus(Dot)), Eol>>)

\* ^(\d+),
stop_num_pattern == Cat(<<Bol, Grp(1, Plus(D)), Ch(",")>>)

\* LineItemData: the fields set from one match of shipment_pattern
line_item(text, match) ==
  [vendor_no   |-> Group(text, match, 1),
   vendor_name |-> Strip(CollapseWs(Group(text, match, 2))),
   cubes       |-> Group(text, match, 3),
   weight      |-> Group(text, match, 4),
   pieces      |-> Group(text, match, 5),
   po          |-> Group(text, match, 7),
   match_end   |-> match.end - 1]

NonEmpty(s) == s # <<>>

\* the stripped, non-empty captures of pallet_pattern, in order
pallet_data_of(text) ==
  LET Pallets(ms) == SelectSeq([k \in 1..Len(ms) |-> Strip(Group(text, ms[k], 1))], NonEmpty)
  IN  Pallets(FindIter(pallet_pattern, text))

pickup_dates_of(text) ==
  LET Dates(ms) == [k \in 1..Len(ms) |-> Group(text, ms[k], 1)]
  IN  Dates(FindIter(pickup_pattern, text))

delivery_dates_of(text) ==
  LET Dates(ms) == [k \in 1..Len(ms) |-> Strip(CollapseWs(Group(text, ms[k], 1)))]
  IN  Dates(FindIter(deliver_pattern, text))

\* the element after the one at idx: the pairing shifted by one position
AtOrEmptyNext(seq, idx) == IF idx + 1 < Len(seq) THEN seq[idx + 2] ELSE <<>>

\* seq[idx] if idx < len(seq) else "", idx counted from 0
AtOrEmpty(seq, idx) == IF idx < Len(seq) THEN seq[idx + 1] ELSE <<>>

\* the destination whose leading number is vendor_stop_num
StopMatches(stop_dest, vendor_stop_num) ==
  LET Same(stop_num_match) ==
        stop_num_match.ok /\ Strip(Group(stop_dest, stop_num_match, 1)) = vendor_stop_num
  IN  Same(Search(stop_num_pattern, stop_dest))

\* the destination stored at the position of the stop number, whatever its text
template2_ship_to_at_number(vendor_name, stop_destinations) ==
  LET At(number) ==
        IF number # <<>> /\ IntOf(number) \in DOMAIN stop_destinations
        THEN stop_destinations[IntOf(number)] ELSE <<>>
  IN  At(Strip(FirstGroupOrEmpty(vendor_stop_pattern, vendor_name)))

\* ship_to of one line item: the first destination that starts with the stop number
\* found at the end of item.vendor_name
template2_ship_to(vendor_name, stop_destinations) ==
  LET First(hits) == IF hits = {} THEN <<>> ELSE stop_destinations[MinOf(hits)]
      ShipTo(vendor_stop_match, hits) == IF ~vendor_stop_match.ok THEN <<>> ELSE First(hits)
  IN  ShipTo(Search(vendor_stop_pattern, vendor_name),
             {stop_idx \in DOMAIN stop_destinations :
                StopMatches(stop_destinations[stop_idx],
                            Strip(FirstGroupOrEmpty(vendor_stop_pattern, vendor_name)))})

\* a tag that names the template the record came from
template2_own_tag == "Template-2"

\* the tag every Template-2 record carries ("Hardcoded as per original Java code")
template2_tag == "Template-1"

\* self.convert_date_format(date) if date else ""
convert_if_present(date) == IF date # <<>> THEN convert_date_format(date) ELSE <<>>

\* the record of the line item at index idx (from 0)
template2_record(text, item, idx, pickup_dates, delivery_dates, pallet_data, ship_from, stop_destinations) ==
  [template      |-> template2_tag,
   del_date      |-> convert_if_present(AtOrEmpty(delivery_dates, idx)),
   pickup_date   |-> convert_if_present(AtOrEmpty(pickup_dates, idx)),
   ship_from     |-> ship_from,
   ship_to       |-> template2_ship_to(item.vendor_name, stop_destinations),
   vendor_no     |-> item.vendor_no,
   vendor_name   |-> extract_vendor_name(item.vendor_name),
   cubes         |-> item.cubes,
   weight        |-> item.weight,
   pieces        |-> item.pieces,
   po            |-> item.po,
   shipment_type |-> extract_shipment_type(text, item.po),
   pallets       |-> <<>>,
   description   |-> AtOrEmpty(pallet_data, idx)]

line_items_of(text) ==
  LET Items(ms) == [k \in 1..Len(ms) |-> line_item(text, ms[k])]
  IN  Items(FindIter(shipment_pattern, text))

\* for idx, item in enumerate(line_items): one record per line item
template2_records(text, line_items, pallet_data, pickup_dates, delivery_dates, ship_from, stop_destinations) ==
  [k \in 1..Len(line_items) |->
     template2_record(text, line_items[k], k - 1, pickup_dates, delivery_dates,
                      pallet_data, ship_from, stop_destinations)]

process_template2(text, stop_destinations) ==
  template2_records(text, line_items_of(text), pallet_data_of(text), pickup_dates_of(text),
                    delivery_dates_of(text), StopOrEmpty(stop_destinations, 1),
                    stop_destinations)

(***************************************************************************)
(* The file system seen by the parser, and the documents used as inputs.   *)
(* A file is unreadable (PyPDF2 raises on it) or carries its page text.    *)
(***************************************************************************)
Stop1Block == <<"S", "t", "o", "p", ":", " ", "1", " ", "D", "e", "s", "t", "i", "n", "a", "t", "i", "o", "n", ":", " ", "1", ",", " ", "W", "A", " ", "S", "t", "o", "p", " ", "L", "o", "c", "a", "t", "i", "o", "n", " ", "M", "e", "m", "o", ":", "\n">>

Stop2Block == <<"S", "t", "o", "p", ":", " ", "2", " ", "D", "e", "s", "t", "i", "n", "a", "t", "i", "o", "n", ":", " ", "2", ",", " ", "S", "B", " ", "S", "t", "o", "p", " ", "L", "o", "c", "a", "t", "i", "o", "n", " ", "M", "e", "m", "o", ":", "\n">>

Stop0Block == <<"S", "t", "o", "p", ":", " ", "0", " ", "D", "e", "s", "t", "i", "n", "a", "t", "i", "o", "n", ":", " ", "0", ",", " ", "Z", "Z", " ", "S", "t", "o", "p", " ", "L", "o", "c", "a", "t", "i", "o", "n", " ", "M", "e", "m", "o", ":", "\n">>

Template1Head == <<"P", "i", "c", "k", "u", "p", " ", "O", "n", " ", ":", " ", "2", "0", "/", "1", "0", "/", "2", "0", "2", "5", " ", "D", "e", "l", "i", "v", "e", "r", " ", "O", "n", " ", ":", " ", "2", "1", "/", "1", "0", "/", "2", "0", "2", "5", "\n">>

Template1ItemA ==
  <<"1", "2", "3", "4", "5", "6", " ", "-", " ", "A", "c", "m", "e", " ", "C", "u", "b", "e", ":", " ", "1", ",", "2", "0", "0", " ", "W", "e", "i", "g", "h", "t", ":", " ", "3", ",", "4", "0", "0", " ", "P", "i", "e", "c", "e", "s", ":", " ", "1", "2", " ", "A", "B", "C", "-", "P", "O", "-", "1", "0", "-", "2", "0", "2", "5", "-", "9", "9", "8", "8", " ", "(", "G", "R", "O", "C", ")", "\n", "R", "e", "f", " ", "N", "u", "m", "b", "e", "r", ":", " ", "X", " ", "P", "a", "l", "l", "e", "t", " ", "C", "o", "u", "n", "t", ":", " ", "F", "r", "o", "z", "e", "n", "|", "\n", "-", "-", "\n">>

Template1ItemB ==
  <<"2", "2", " ", "-", " ", "7", " ", "-", " ", "B", "o", "l", "t", " ", "-", " ", "2", " ", "-", " ", "T", "R", "A", " ", "C", "u", "b", "e", ":", " ", "1", " ", "W", "e", "i", "g", "h", "t", ":", " ", "2", " ", "P", "i", "e", "c", "e", "s", ":", " ", "3", " ", "X", "Y", "Z", "-", "P", "O", "-", "1", "1", "-", "2", "0", "2", "5", "-", "1", "7", " ", "R", "e", "f", " ", "N", "u", "m", "b", "e", "r", ":", "P", "a", "l", "l", "e", "t", " ", "C", "o", "u", "n", "t", ":", "\n", "-", "-", "\n">>

Template2ItemA ==
  <<"2", "3", "7", "7", "7", "2", " ", "-", " ", "A", "g", "r", "o", "p", "u", "r", " ", "D", "i", "v", " ", "-", " ", "2", " ", "-", " ", "T", "R", "A", " ", "L", "o", "c", "\n", "C", "u", "b", "e", ":", " ", "1", ",", "2", "0", "0", " ", "W", "e", "i", "g", "h", "t", ":", " ", "3", ",", "4", "0", "0", " ", "P", "i", "e", "c", "e", "s", ":", " ", "1", "2", " ", "A", "B", "C", "-", "P", "O", "-", "1", "0", "-", "2", "0", "2", "5", "-", "9", "9", "8", "8", " ", "(", "G", "R", "O", "C", ")", "\n", "P", "a", "l", "l", "e", "t", " ", "C", "o", "u", "n", "t", ":", " ", "D", "r", "y", "\n", "P", "i", "c", "k", "u", "p", " ", ":", " ", "O", "c", "t", " ", "2", "0", ",", " ", "2", "0", "2", "5", " ", "1", "1", ":", "5", "9", ":", "0", "0", " ", "P", "M", "\n", "D", "e", "l", "i", "v", "e", "r", "y", " ", ":", " ", "O", "c", "t", " ", "2", "1", ",", " ", "2", "0", "2", "5", "\n", " ", "0", "8", ":", "0", "0", ":", "0", "0", " ", "A", "M", "\n">>

Template2ItemB ==
  <<"1", "1", "1", "1", "1", "1", " ", "-", " ", "S", "m", "u", "c", "k", "e", "r", "\n", " ", "F", "o", "o", "d", "s", " ", "C", "u", "b", "e", " ", ":", " ", "1", " ", "W", "e", "i", "g", "h", "t", " ", ":", " ", "2", " ", "P", "i", "e", "c", "e", "s", " ", ":", " ", "3", " ", "X", "Y", "Z", "-", "P", "O", "-", "1", "1", "-", "2", "0", "2", "5", "-", "1", "7", "\n">>

DocTemplate1 == Stop1Block \o Stop2Block \o Template1Head \o Template1ItemA \o Template1ItemB

DocTemplate2 == Stop1Block \o Stop2Block \o Template2ItemA \o Template2ItemB

DocStopZero == Stop0Block \o Template1Head \o Template1ItemA

Unreadable == [readable |-> FALSE, text |-> <<>>]

PdfOf(text) == [readable |-> TRUE, text |-> text]

Contents == {Unreadable, PdfOf(DocTemplate1), PdfOf(DocTemplate2), PdfOf(DocStopZero)}

\* the number of files the input directory holds at most
MaxFiles == 2

FileLists == UNION {[1..n -> Contents] : n \in 0..MaxFiles}

(***************************************************************************)
(* Values of a request argument: absent/empty (falsy), a non-string JSON   *)
(* value, or a path string.  Path string v names the v-th file of the      *)
(* input directory (for pdf_path) or the input directory itself when       *)
(* v = 1 (for directory_path); v = 0 is a path at which nothing exists.    *)
(***************************************************************************)
Falsy == [t |-> "none", v |-> 0]

NonStr == [t |-> "int", v |-> 5]

PathStr(v) == [t |-> "str", v |-> v]

Return(value) == [raised |-> FALSE, value |-> value]

Raise(exc) == [raised |-> TRUE, exc |-> exc]

\* extract_text_from_pdf (src/main.py 172-183): re-raises whatever the reader raises
extract_text_from_pdf(file) ==
  IF file.readable THEN Return(file.text) ELSE Raise("PdfReadError")

\* the branch on template_type in parse_pdf
records_of(text, stop_destinations) ==
  IF detect_template(text) = "Template-1"
    THEN process_template1(text, stop_destinations)
    ELSE process_template2(text, stop_destinations)

\* the "result" object parse_pdf returns
result_payload(template_type, records, pdf_path, now) ==
  [template_type |-> template_type,
   records_count |-> Len(records),
   records       |-> records,
   file_name     |-> pdf_path.v,
   processed_at  |-> now]

\* the success payload of parse_pdf
parse_result(text, pdf_path, stop_destinations, now) ==
  result_payload(detect_template(text), records_of(text, stop_destinations), pdf_path, now)

\* parse_pdf once the stop table is built, or once building it has raised
parse_stops(text, stops, pdf_path, now) ==
  IF stops.raised THEN Raise("IndexError")
  ELSE Return([result |-> parse_result(text, pdf_path, stops.val, now),
               capability |-> "parse_pdf"])

\* parse_pdf once the text is extracted, or once extracting it has raised
parse_extracted(extracted, pdf_path, now) ==
  IF extracted.raised THEN extracted
  ELSE parse_stops(extracted.value, extract_stop_destinations(extracted.value), pdf_path, now)

\* the body of parse_pdf's try block: a returned envelope or a raised exception
parse_pdf_try(files, pdf_path, now) ==
  IF pdf_path.t # "str" THEN Raise("TypeError")
  ELSE IF pdf_path.v \notin DOMAIN files
    THEN Return([error |-> "PDF file not found at path", capability |-> "parse_pdf"])
  ELSE parse_extracted(extract_text_from_pdf(files[pdf_path.v]), pdf_path, now)

\* a parse_pdf whose failures are not caught
parse_pdf_uncaught(files, pdf_path, now) == parse_pdf_try(files, pdf_path, now)

\* parse_pdf (src/main.py 381-423): "except Exception" turns a raise into an error envelope
parse_pdf(files, pdf_path, now) ==
  LET Caught(attempt) ==
        IF attempt.raised
          THEN Return([error |-> attempt.exc, capability |-> "parse_pdf"])
          ELSE attempt
  IN  Caught(parse_pdf_try(files, pdf_path, now))

\* a batch loop that leaves failing documents out of the results
append_entry_skip(results, pdf_file, result) ==
  IF "result" \in DOMAIN result THEN Append(results, result.result) ELSE results

\* results.append(...) of the batch loop (src/main.py 447-450)
append_entry(results, pdf_file, result) ==
  IF "result" \in DOMAIN result
    THEN Append(results, result.result)
    ELSE Append(results, [file  |-> pdf_file,
                          error |-> IF "error" \in DOMAIN result THEN result.error
                                    ELSE "Unknown error"])

RECURSIVE directory_loop(_, _, _, _)
\* for pdf_file in pdf_files: the outcome is the results list, or the raise of a parse
directory_loop(files, k, results, now) ==
  LET Parsed(parsed) ==
        IF parsed.raised THEN parsed
        ELSE directory_loop(files, k + 1,
                            append_entry(results, PathStr(k), parsed.value), now)
  IN  IF k > Len(files) THEN Return(results)
      ELSE Parsed(parse_pdf(files, PathStr(k), now))

\* the body of parse_directory's try block
parse_directory_try(files, directory_path, now) ==
  LET Looped(looped) ==
        IF looped.raised THEN looped
        ELSE Return([result |-> [total_files  |-> Len(files),
                                 results      |-> looped.value,
                                 processed_at |-> now],
                     capability |-> "parse_directory"])
  IN  IF directory_path.t # "str" THEN Raise("TypeError")
      ELSE IF directory_path.v # 1
        THEN Return([error |-> "Directory not found", capability |-> "parse_directory"])
      ELSE IF Len(files) = 0
        THEN Return([error |-> "No PDF files found in directory",
                     capability |-> "parse_directory"])
      ELSE Looped(directory_loop(files, 1, <<>>, now))

\* parse_directory (src/main.py 425-464)
parse_directory(files, directory_path, now) ==
  LET Caught(attempt) ==
        IF attempt.raised
          THEN Return([error |-> attempt.exc, capability |-> "parse_directory"])
          ELSE attempt
  IN  Caught(parse_directory_try(files, directory_path, now))

\* save_result_to_downloads: the path of the file it writes
out_path(source_name, now) ==
  [name |-> IF source_name.t = "str" THEN source_name.v ELSE 0, timestamp |-> now]

\* save_result_to_downloads: {**result, "saved_to": str(out_path)}
result_with_path(result, saved_to) ==
  IF "result" \in DOMAIN result
    THEN [result |-> result.result, capability |-> result.capability, saved_to |-> saved_to]
    ELSE [error |-> result.error, capability |-> result.capability, saved_to |-> saved_to]

(***************************************************************************)
(* The program as a state machine: main() (src/main.py 467-517) run on one *)
(* request read from stdin, against one input directory.                   *)
(***************************************************************************)
VARIABLES
  request,      \* what stdin delivers to json.load
  files,        \* the *.pdf files of the input directory, in glob order
  pc,           \* main's position
  result,       \* main's local "result"
  calls,        \* the outcomes of the parser calls made so far
  exc,          \* the exception main's "except Exception" has caught last
  downloads,    \* the files written to the Downloads folder
  saved_path,   \* main's local "saved_path"
  stdout,       \* the objects printed
  exit_code,    \* the process's exit status, -1 while it runs
  clock,        \* datetime.now(), advanced by every step that reads it
  fn_pc,        \* position of a run that applies one function on its own
  fn_in,        \* that function's input
  fn_out        \* that function's output

vars == <<request, files, pc, result, calls, exc, downloads, saved_path, stdout,
          exit_code, clock, fn_pc, fn_in, fn_out>>

main_vars == <<request, files, pc, result, calls, exc, downloads, saved_path, stdout,
               exit_code, clock>>

fn_vars == <<fn_pc, fn_in, fn_out>>

NullArgs == [null |-> TRUE, pdf_path |-> Falsy, directory_path |-> Falsy]

DictArgs(pdf_path, directory_path) ==
  [null |-> FALSE, pdf_path |-> pdf_path, directory_path |-> directory_path]

\* a JSON object with "capability" and "args"
ObjectRequest(capability, args) == [kind |-> "object", capability |-> capability, args |-> args]

\* text json.load rejects, and valid JSON that is no object
OtherRequest(kind) == [kind |-> kind, capability |-> "none", args |-> NullArgs]

Requests ==
  {OtherRequest("malformed"), OtherRequest("list")}
    \cup {ObjectRequest("parse_pdf", a) :
            a \in {NullArgs} \cup {DictArgs(p, Falsy) : p \in {Falsy, NonStr, PathStr(1)}}}
    \cup {ObjectRequest("parse_directory", a) :
            a \in {NullArgs} \cup {DictArgs(Falsy, d) :
                                     d \in {Falsy, NonStr, PathStr(0), PathStr(1)}}}
    \cup {ObjectRequest("export", a) : a \in {NullArgs, DictArgs(Falsy, Falsy)}}

NoResult == [capability |-> "none"]

NoPath == [name |-> 0, timestamp |-> 0]

FnIdle == fn_pc = "off" /\ fn_in = <<>> /\ fn_out = <<>>

MainIdle ==
  /\ request = OtherRequest("none")
  /\ files = <<>>
  /\ pc = "off"
  /\ result = NoResult
  /\ calls = <<>>
  /\ exc = "none"
  /\ downloads = {}
  /\ saved_path = NoPath
  /\ stdout = <<>>
  /\ exit_code = -1
  /\ clock = 0

Init ==
  /\ request \in Requests
  /\ files \in FileLists
  /\ pc = "read"
  /\ result = NoResult
  /\ calls = <<>>
  /\ exc = "none"
  /\ downloads = {}
  /\ saved_path = NoPath
  /\ stdout = <<>>
  /\ exit_code = -1
  /\ clock = 0
  /\ FnIdle

\* the argument the requested capability reads from args
RequiredArg ==
  IF request.capability = "parse_pdf" THEN request.args.pdf_path
  ELSE request.args.directory_path

\* main, up to the call of the parser: json.load, the dispatch on capability, args.get
MainRead ==
  /\ pc = "read"
  /\ IF request.kind # "object"
       THEN /\ pc' = "except"
            /\ exc' = (IF request.kind = "malformed" THEN "JSONDecodeError"
                       ELSE "AttributeError")
            /\ UNCHANGED result
     ELSE IF request.capability \notin {"parse_pdf", "parse_directory"}
       THEN pc' = "unknown" /\ UNCHANGED <<exc, result>>
     ELSE IF request.args.null
       THEN pc' = "except" /\ exc' = "AttributeError" /\ UNCHANGED result
     ELSE IF RequiredArg.t = "none"
       THEN /\ result' = [error |-> "Missing required parameter",
                          capability |-> request.capability]
            /\ pc' = "save"
            /\ UNCHANGED exc
     ELSE pc' = request.capability /\ UNCHANGED <<exc, result>>
  /\ UNCHANGED <<request, files, calls, downloads, saved_path, stdout, exit_code, clock>>
  /\ UNCHANGED fn_vars

\* main receives the outcome of a parser call
Receive(callee, outcome) ==
  /\ calls' = Append(calls, [callee |-> callee, outcome |-> outcome])
  /\ IF outcome.raised
       THEN pc' = "except" /\ exc' = outcome.exc /\ UNCHANGED result
       ELSE pc' = "save" /\ result' = outcome.value /\ UNCHANGED exc
  /\ clock' = clock + 1
  /\ UNCHANGED <<request, files, downloads, saved_path, stdout, exit_code>>
  /\ UNCHANGED fn_vars

\* result = parser.parse_pdf(pdf_path)
ParsePdf ==
  /\ pc = "parse_pdf"
  /\ Receive("parse_pdf", parse_pdf(files, request.args.pdf_path, clock))

\* result = parser.parse_directory(directory_path)
ParseDirectory ==
  /\ pc = "parse_directory"
  /\ Receive("parse_directory", parse_directory(files, request.args.directory_path, clock))

\* source_for_name: pdf_path if it is a string and the result has no error, else None
source_for_name ==
  IF /\ request.capability = "parse_pdf"
     /\ request.args.pdf_path.t = "str"
     /\ "error" \notin DOMAIN result
    THEN request.args.pdf_path
    ELSE Falsy

\* the Downloads folder after payload is written at path
Written(path, payload) ==
  {f \in downloads : f.path # path} \cup {[path |-> path, payload |-> payload]}

\* saved_path = save_result_to_downloads(result, source_for_name): the write succeeds,
\* or mkdir/open/write raises
Save ==
  /\ pc = "save"
  /\ \E ok \in BOOLEAN :
       LET path == out_path(source_for_name, clock)
       IN  IF ok
             THEN /\ downloads' = Written(path, result_with_path(result, path))
                  /\ saved_path' = path
                  /\ pc' = "print"
                  /\ UNCHANGED exc
             ELSE /\ pc' = "except"
                  /\ exc' = "OSError"
                  /\ UNCHANGED <<downloads, saved_path>>
  /\ clock' = clock + 1
  /\ UNCHANGED <<request, files, result, calls, stdout, exit_code>>
  /\ UNCHANGED fn_vars

\* print(json.dumps({"capability": ..., "saved_to": saved_path})), then main returns
PrintSaved ==
  /\ pc = "print"
  /\ stdout' = Append(stdout, [capability |-> request.capability, saved_to |-> saved_path])
  /\ pc' = "exited"
  /\ exit_code' = 0
  /\ UNCHANGED <<request, files, result, calls, exc, downloads, saved_path, clock>>
  /\ UNCHANGED fn_vars

\* the else branch: print the unknown-capability error, then main returns
PrintUnknown ==
  /\ pc = "unknown"
  /\ stdout' = Append(stdout, [error |-> "Unknown capability",
                               capability |-> request.capability])
  /\ pc' = "exited"
  /\ exit_code' = 0
  /\ UNCHANGED <<request, files, result, calls, exc, downloads, saved_path, clock>>
  /\ UNCHANGED fn_vars

\* except Exception: save err_result; a raise in here leaves main uncaught
ExceptSave ==
  /\ pc = "except"
  /\ \E ok \in BOOLEAN :
       LET path == out_path(Falsy, clock)
           err_result == [error |-> exc, capability |-> "unknown"]
       IN  IF ok
             THEN /\ downloads' = Written(path, result_with_path(err_result, path))
                  /\ saved_path' = path
                  /\ pc' = "except_print"
                  /\ UNCHANGED <<exc, exit_code>>
             ELSE /\ pc' = "crashed"
                  /\ exc' = "OSError"
                  /\ exit_code' = 1
                  /\ UNCHANGED <<downloads, saved_path>>
  /\ clock' = clock + 1
  /\ UNCHANGED <<request, files, result, calls, stdout>>
  /\ UNCHANGED fn_vars

\* except Exception: print the location of the saved error, then sys.exit(1)
ExceptPrint ==
  /\ pc = "except_print"
  /\ stdout' = Append(stdout, [capability |-> "unknown", saved_to |-> saved_path])
  /\ pc' = "exited"
  /\ exit_code' = 1
  /\ UNCHANGED <<request, files, result, calls, exc, downloads, saved_path, clock>>
  /\ UNCHANGED fn_vars

Next ==
  \/ MainRead
  \/ ParsePdf
  \/ ParseDirectory
  \/ Save
  \/ PrintSaved
  \/ PrintUnknown
  \/ ExceptSave
  \/ ExceptPrint

Spec == Init /\ [][Next]_vars

(***************************************************************************)
(* Runs that apply one function of the parser on its own: the input is     *)
(* drawn in the initial state and one step applies the function.           *)
(***************************************************************************)
SeqsUpTo(S, n) == UNION {[1..k -> S] : k \in 0..n}

\* the texts parts[1], parts[2], ... one after the other
Concat(parts) == CatFrom(parts, 1)

FnInit(entry, inputs) ==
  /\ MainIdle
  /\ fn_pc = entry
  /\ fn_in \in inputs
  /\ fn_out = <<>>

(* detect_template on texts made of the parts of a pickup stamp *)
DetectParts ==
  {<<"P", "i", "c", "k", "u", "p">>, <<"P", "I", "C", "K", "U", "P">>, <<"p", "i", "c", "k", "u", "p">>, <<":">>, <<" ">>, <<"O", "c", "t", " ", "2", "0", ",", " ", "2", "0", "2", "5", " ", "1", "1", ":", "5", "9", ":", "0", "0">>, <<"x">>}

MaxDetectParts == 3

DetectTexts == {Concat(parts) : parts \in SeqsUpTo(DetectParts, MaxDetectParts)}

InitDetect == FnInit("detect_template", DetectTexts)

Detect ==
  /\ fn_pc = "detect_template"
  /\ fn_pc' = "detected"
  /\ fn_out' = detect_template(fn_in)
  /\ UNCHANGED fn_in
  /\ UNCHANGED main_vars

SpecDetect == InitDetect /\ [][Detect]_vars

(* extract_stop_destinations on sequences of Stop blocks *)
MaxStopNumber == 3

MaxStopBlocks == 2

StopBlocks == [number : 0..MaxStopNumber, destination : {<<"A">>, <<"B">>}]

StopBlockText(block) ==
  <<"S", "t", "o", "p", ":", " ">> \o Decimal(block.number) \o <<" ", "D", "e", "s", "t", "i", "n", "a", "t", "i", "o", "n", ":", " ">> \o block.destination
    \o <<" ", "S", "t", "o", "p", " ", "L", "o", "c", "a", "t", "i", "o", "n", " ", "M", "e", "m", "o", ":", "\n">>

StopsText(blocks) == Concat([k \in DOMAIN blocks |-> StopBlockText(blocks[k])])

InitStops == FnInit("extract_stop_destinations", SeqsUpTo(StopBlocks, MaxStopBlocks))

Stops ==
  /\ fn_pc = "extract_stop_destinations"
  /\ fn_pc' = "tabled"
  /\ fn_out' = extract_stop_destinations(StopsText(fn_in))
  /\ UNCHANGED fn_in
  /\ UNCHANGED main_vars

SpecStops == InitStops /\ [][Stops]_vars

(* convert_date_format on texts made of the parts of a date *)
DateParts ==
  {<<"O", "c", "t", " ", "2", "0", ",", " ", "2", "0", "2", "5">>, <<"F", "e", "b", " ", "3", "0", ",", " ", "2", "0", "2", "5">>, <<"1", "1", ":", "5", "9", ":", "0", "0", " ", "P", "M">>, <<"g", "a", "r", "b", "a", "g", "e">>, <<" ">>, <<" ", " ">>, <<"\n">>}

MaxDateParts == 3

DateTexts == {Concat(parts) : parts \in SeqsUpTo(DateParts, MaxDateParts)}

InitDate == FnInit("convert_date_format", DateTexts)

ConvertDate ==
  /\ fn_pc = "convert_date_format"
  /\ fn_pc' = "converted"
  /\ fn_out' = convert_date_format(fn_in)
  /\ UNCHANGED fn_in
  /\ UNCHANGED main_vars

SpecDate == InitDate /\ [][ConvertDate]_vars

(* extract_vendor_name, and extract_vendor_name again on what it returned *)
VendorAlphabet == {"1", "-", " ", "a"}

MaxVendorLen == 5

InitVendor == FnInit("extract_vendor_name", SeqsUpTo(VendorAlphabet, MaxVendorLen))

ExtractVendor ==
  /\ fn_pc = "extract_vendor_name"
  /\ fn_pc' = "extracted"
  /\ fn_out' = <<extract_vendor_name(fn_in)>>
  /\ UNCHANGED fn_in
  /\ UNCHANGED main_vars

ExtractVendorAgain ==
  /\ fn_pc = "extracted"
  /\ fn_pc' = "extracted_again"
  /\ fn_out' = Append(fn_out, extract_vendor_name(fn_out[1]))
  /\ UNCHANGED fn_in
  /\ UNCHANGED main_vars

NextVendor == ExtractVendor \/ ExtractVendorAgain

SpecVendor == InitVendor /\ [][NextVendor]_vars

(* parse_pdf on documents made of Stop blocks, date markers and line items *)
Stop3Block == <<"S", "t", "o", "p", ":", " ", "3", " ", "D", "e", "s", "t", "i", "n", "a", "t", "i", "o", "n", ":", " ", "3", ",", " ", "S", "C", " ", "S", "t", "o", "p", " ", "L", "o", "c", "a", "t", "i", "o", "n", " ", "M", "e", "m", "o", ":", "\n">>

StopBlocksInOrder == <<Stop1Block, Stop2Block, Stop3Block>>

\* the first n Stop blocks of a document, at most all three
StopsPart(n) ==
  Concat(SubSeq(StopBlocksInOrder, 1, IF n < Len(StopBlocksInOrder) THEN n
                                      ELSE Len(StopBlocksInOrder)))

MarkerDates == {<<>>, <<"2", "0", "/", "1", "0", "/", "2", "0", "2", "5">>}

\* the "Pickup On" and "Deliver On" markers of a Template-1 document
Template1Heads == [pickup : MarkerDates, deliver : MarkerDates]

HeadText(head) ==
  (IF head.pickup = <<>> THEN <<>> ELSE <<"P", "i", "c", "k", "u", "p", " ", "O", "n", " ", ":", " ">> \o head.pickup \o <<"\n">>)
    \o (IF head.deliver = <<>> THEN <<>> ELSE <<"D", "e", "l", "i", "v", "e", "r", " ", "O", "n", " ", ":", " ">> \o head.deliver \o <<"\n">>)

MaxStops == 2

MaxItems == 2

Template1Docs ==
  [stops : 0..MaxStops, head : Template1Heads,
   items : SeqsUpTo({Template1ItemA, Template1ItemB}, MaxItems)]

Template2ItemC ==
  <<"2", "2", "2", "2", "2", "2", " ", "-", " ", "P", "l", "a", "i", "n", " ", "-", " ", "3", " ", "-", " ", "X", " ", "C", "u", "b", "e", ":", " ", "1", " ", "W", "e", "i", "g", "h", "t", ":", " ", "2", " ", "P", "i", "e", "c", "e", "s", ":", " ", "3", " ", "A", "B", "C", "-", "P", "O", "-", "1", "0", "-", "2", "0", "2", "5", "-", "5", " ", "(", "A", ")", "\n", "P", "a", "l", "l", "e", "t", " ", "C", "o", "u", "n", "t", ":", " ", "W", "e", "t", "\n", "P", "I", "C", "K", "U", "P", ":", " ", "O", "c", "t", " ", "2", "2", ",", " ", "2", "0", "2", "5", " ", "1", ":", "0", "0", ":", "0", "0", " ", "A", "M", "\n">>

Template2ItemD ==
  <<"3", "3", "3", "3", "3", "3", " ", "-", " ", "F", "a", "r", " ", "-", " ", "9", " ", "-", " ", "Y", " ", "C", "u", "b", "e", ":", " ", "1", " ", "W", "e", "i", "g", "h", "t", ":", " ", "2", " ", "P", "i", "e", "c", "e", "s", ":", " ", "3", " ", "A", "B", "C", "-", "P", "O", "-", "1", "0", "-", "2", "0", "2", "5", "-", "6", "\n", "D", "e", "l", "i", "v", "e", "r", ":", " ", "O", "c", "t", " ", "2", "3", ",", " ", "2", "0", "2", "5", " ", "2", ":", "0", "0", ":", "0", "0", " ", "P", "M", "\n">>

Template2Docs ==
  [stops : 0..MaxStops, head : {[pickup |-> <<>>, deliver |-> <<>>]},
   items : SeqsUpTo({Template2ItemA, Template2ItemB, Template2ItemC, Template2ItemD},
                    MaxItems)]

DocText(doc) == StopsPart(doc.stops) \o HeadText(doc.head) \o Concat(doc.items)

\* the document as the one file of the directory, parsed at time 0
ParseDoc(doc) ==
  [table  |-> extract_stop_destinations(DocText(doc)),
   parsed |-> parse_pdf(<<PdfOf(DocText(doc))>>, PathStr(1), 0)]

InitTemplate1 == FnInit("parse_pdf", Template1Docs)

ParseTemplate1 ==
  /\ fn_pc = "parse_pdf"
  /\ fn_pc' = "parsed"
  /\ fn_out' = ParseDoc(fn_in)
  /\ UNCHANGED fn_in
  /\ UNCHANGED main_vars

SpecTemplate1 == InitTemplate1 /\ [][ParseTemplate1]_vars

InitTemplate2 == FnInit("parse_pdf", Template2Docs)

ParseTemplate2 ==
  /\ fn_pc = "parse_pdf"
  /\ fn_pc' = "parsed"
  /\ fn_out' = ParseDoc(fn_in)
  /\ UNCHANGED fn_in
  /\ UNCHANGED main_vars

SpecTemplate2 == InitTemplate2 /\ [][ParseTemplate2]_vars

(***************************************************************************)
(* The claims                                                              *)
(***************************************************************************)
ParsePdfCalls == {k \in DOMAIN calls : calls[k].callee = "parse_pdf"}

\* C1: whatever happens while one document is parsed (the path does not resolve, the
\* text cannot be extracted, building the stop table raises, or the parse succeeds),
\* parse_pdf returns, raising nothing, an envelope that has exactly one of "result"
\* and "error".
C1_ParseReturnsResultOrError ==
  \A k \in ParsePdfCalls :
    /\ ~calls[k].outcome.raised
    /\ ("result" \in DOMAIN calls[k].outcome.value)
         # ("error" \in DOMAIN calls[k].outcome.value)

\* parse_pdf has returned an error envelope for a document whose stop table raised
C1_ExtractorFailureReturned ==
  /\ ParsePdfCalls # {}
  /\ Len(files) >= 1
  /\ files[1] = PdfOf(DocStopZero)
  /\ \E k \in ParsePdfCalls :
       /\ ~calls[k].outcome.raised
       /\ DOMAIN calls[k].outcome.value = {"error", "capability"}
       /\ calls[k].outcome.value.error = "IndexError"

\* the call of parse_directory on the input directory, which holds documents
BatchReturned ==
  /\ pc = "save"
  /\ calls # <<>>
  /\ calls[1].callee = "parse_directory"
  /\ request.args.directory_path = PathStr(1)
  /\ Len(files) > 0

\* what document i contributes when it alone is parsed at time now
OwnEntry(i, now) ==
  LET Entry(alone) ==
        IF "result" \in DOMAIN alone THEN alone.result
        ELSE [file |-> PathStr(i), error |-> alone.error]
  IN  Entry(parse_pdf(files, PathStr(i), now).value)

\* C2: parse_directory on a directory of documents returns a success envelope whose
\* results hold one entry per document in glob order, total_files being the number
\* of documents; the entry of a document is what that document yields on its own, an
\* error descriptor naming it if its parse fails.
C2_BatchIsBestEffort ==
  BatchReturned =>
    /\ ~calls[1].outcome.raised
    /\ DOMAIN calls[1].outcome.value = {"result", "capability"}
    /\ calls[1].outcome.value.result.total_files = Len(files)
    /\ Len(calls[1].outcome.value.result.results) = Len(files)
    /\ \A i \in DOMAIN files :
         calls[1].outcome.value.result.results[i]
           = OwnEntry(i, calls[1].outcome.value.result.processed_at)

\* a batch of an unreadable document followed by a good one has returned
C2_MixedBatchReturned ==
  /\ BatchReturned
  /\ Len(files) = 2
  /\ files[1] = Unreadable
  /\ files[2] = PdfOf(DocTemplate1)
  /\ ~calls[1].outcome.raised
  /\ "error" \in DOMAIN calls[1].outcome.value.result.results[1]
  /\ "records" \in DOMAIN calls[1].outcome.value.result.results[2]

\* C3: every object printed has "capability" and "saved_to", and the file saved_to
\* names holds the payload by the time the object is printed.
C3_PrintedObjectNamesSavedFile ==
  \A k \in DOMAIN stdout :
    /\ {"capability", "saved_to"} \subseteq DOMAIN stdout[k]
    /\ \E f \in downloads :
         /\ f.path = stdout[k].saved_to
         /\ f.payload.saved_to = stdout[k].saved_to

\* C4: when the process has ended, a failure that reached the catch-all (exc is set)
\* has been reported: main returned through sys.exit with a non-zero status after
\* printing one well-formed object; without such a failure the status is zero.
C4_BoundaryFailureIsReported ==
  pc \in {"exited", "crashed"} =>
    IF exc # "none"
      THEN /\ pc = "exited"
           /\ exit_code # 0
           /\ Len(stdout) = 1
           /\ {"capability", "saved_to"} \subseteq DOMAIN stdout[1]
      ELSE exit_code = 0

\* the pickup stamp of detect_template, matched without regard to case
PickupStampAnyCase ==
  Cat(<<LitI(W_Pickup), Star(S_), Ch(":"), Star(S_), Times(W, 3), Plus(S_),
        Rep(D, 1, 2, TRUE), Ch(","), Plus(S_), Times(D, 4), Plus(S_),
        Rep(D, 1, 2, TRUE), Ch(":"), Times(D, 2), Ch(":"), Times(D, 2)>>)

\* C5: detect_template returns one of the two labels, and "Template-2" exactly when
\* the text holds "Pickup", in any case, a colon and a date-time.
C5_Template2IffPickupStampAnyCase ==
  fn_pc = "detected" =>
    /\ fn_out \in {"Template-1", "Template-2"}
    /\ (fn_out = "Template-2") <=> Search(PickupStampAnyCase, fn_in).ok

\* the destination of the last block numbered n, "" when there is none
LastDestination(blocks, n) ==
  LET Last(ks) == IF ks = {} THEN <<>> ELSE blocks[MaxOf(ks)].destination
  IN  Last({k \in DOMAIN blocks : blocks[k].number = n})

\* C6: for every sequence of Stop blocks the table is built without a failure, is as
\* long as the largest stop number, and holds at n the destination of the last block
\* numbered n, "" when no block has that number.
C6_TableHoldsLastBlockOfEachNumber ==
  fn_pc = "tabled" =>
    /\ ~fn_out.raised
    /\ Len(fn_out.val) = MaxOf({0} \cup {fn_in[k].number : k \in DOMAIN fn_in})
    /\ \A n \in DOMAIN fn_out.val : fn_out.val[n] = LastDestination(fn_in, n)

\* a Template-1 document has been parsed into records
Template1Parsed ==
  /\ fn_pc = "parsed"
  /\ ~fn_out.table.raised
  /\ ~fn_out.parsed.raised
  /\ "result" \in DOMAIN fn_out.parsed.value
  /\ fn_out.parsed.value.result.template_type = "Template-1"

\* C7: every record of a Template-1 document has ship_from = table[0] and
\* ship_to = table[1] of the stop table ("" when the table is too short), and the
\* pickup and delivery date of the document's markers ("" for an absent marker).
C7_Template1RecordsShareStopsAndDates ==
  Template1Parsed =>
    \A k \in DOMAIN fn_out.parsed.value.result.records :
      /\ fn_out.parsed.value.result.records[k].ship_from
           = (IF Len(fn_out.table.val) >= 1 THEN fn_out.table.val[1] ELSE <<>>)
      /\ fn_out.parsed.value.result.records[k].ship_to
           = (IF Len(fn_out.table.val) >= 2 THEN fn_out.table.val[2] ELSE <<>>)
      /\ fn_out.parsed.value.result.records[k].pickup_date = fn_in.head.pickup
      /\ fn_out.parsed.value.result.records[k].del_date = fn_in.head.deliver

\* two line items of a document with two stops, a pickup marker and no delivery marker
C7_TwoRecordsTwoStops ==
  /\ Template1Parsed
  /\ Len(fn_out.parsed.value.result.records) = 2
  /\ Len(fn_out.table.val) = 2
  /\ fn_in.head.pickup # <<>>
  /\ fn_in.head.deliver = <<>>
  /\ fn_out.parsed.value.result.records[2].ship_to = <<"2", ",", " ", "S", "B">>

\* C8: convert_date_format returns its input unchanged, character for character,
\* when the input, collapsed and stripped, does not parse as a date.
C8_UnparsedDateReturnedUnchanged ==
  (fn_pc = "converted" /\ strptime(Strip(CollapseWs(fn_in))).raised) => fn_out = fn_in

\* C9: a name returned for an input of Case 3 (only the simple pattern matches) is
\* returned unchanged when extract_vendor_name is applied to it.
C9_SimpleCaseIdempotent ==
  (fn_pc = "extracted_again" /\ vendor_case(fn_in) = 3) => fn_out[2] = fn_out[1]

\* a Case 3 input whose number was cut off, extracted twice
C9_SimpleCaseExtractedTwice ==
  /\ fn_pc = "extracted_again"
  /\ vendor_case(fn_in) = 3
  /\ fn_out[1] # fn_in
  /\ fn_out[1] # <<>>

\* a Template-2 document has been parsed
Template2Parsed ==
  /\ fn_pc = "parsed"
  /\ ~fn_out.parsed.raised
  /\ "result" \in DOMAIN fn_out.parsed.value
  /\ fn_out.parsed.value.result.template_type = "Template-2"

\* C10: every record of a document whose envelope says "Template-2" is tagged
\* "Template-1".
C10_Template2RecordsTaggedTemplate1 ==
  Template2Parsed =>
    \A k \in DOMAIN fn_out.parsed.value.result.records :
      fn_out.parsed.value.result.records[k].template = "Template-1"

\* a Template-2 envelope with two records
C10_Template2TwoRecords ==
  /\ Template2Parsed
  /\ fn_out.parsed.value.result.records_count = 2
  /\ \A k \in 1..2 : fn_out.parsed.value.result.records[k].template = "Template-1"


(***************************************************************************)
(* Template-2 positional pairing.                                          *)
(***************************************************************************)
\* group n of the k-th match (from 1) of the scan of text for pattern, <<>> when the
\* scan has fewer than k matches
KthFound(pattern, text, k, n) ==
  LET Kth(ms) == IF k <= Len(ms) THEN Group(text, ms[k], n) ELSE <<>>
  IN  Kth(FindIter(pattern, text))

\* the number of matches of the scan of text for pattern
CountFound(pattern, text) == Len(FindIter(pattern, text))

\* the value a date field takes from the date-time found for it: its dd/mm/yyyy form
\* (the text itself when it is no valid date-time), nothing when none was found
FieldOfFound(found) == IF found = <<>> THEN <<>> ELSE convert_date_format(found)

\* record k is the k-th line item with the k-th pickup, delivery and description found
PairedByPosition(text, records, k) ==
  /\ records[k].vendor_no = KthFound(shipment_pattern, text, k, 1)
  /\ records[k].po = KthFound(shipment_pattern, text, k, 7)
  /\ records[k].pickup_date = FieldOfFound(KthFound(pickup_pattern, text, k, 1))
  /\ records[k].del_date = FieldOfFound(Strip(CollapseWs(KthFound(deliver_pattern, text, k, 1))))
  /\ records[k].description = Strip(KthFound(pallet_pattern, text, k, 1))

\* a document that detect_template labels Template-2 has been parsed
Template2Detected ==
  /\ fn_pc = "parsed"
  /\ detect_template(DocText(fn_in)) = "Template-2"

\* C11: a Template-2 document parses without failure into one record per line item
\* found, in order of appearance, and record i carries the i-th pickup date-time, the
\* i-th delivery date-time (both in normalised form) and the i-th Pallet Count text
\* found by three independent scans, each empty when its scan found fewer than i.
C11_Template2PairsByPosition ==
  Template2Detected =>
    /\ Template2Parsed
    /\ Len(fn_out.parsed.value.result.records) = CountFound(shipment_pattern, DocText(fn_in))
    /\ \A k \in DOMAIN fn_out.parsed.value.result.records :
         PairedByPosition(DocText(fn_in), fn_out.parsed.value.result.records, k)

\* two line items but one pickup, one delivery and one description in the document:
\* the first record takes them and the second has none
C11_SecondItemWithoutDates ==
  /\ Template2Parsed
  /\ Len(fn_out.parsed.value.result.records) = 2
  /\ CountFound(pickup_pattern, DocText(fn_in)) = 1
  /\ CountFound(deliver_pattern, DocText(fn_in)) = 1
  /\ CountFound(pallet_pattern, DocText(fn_in)) = 1
  /\ fn_out.parsed.value.result.records[1].pickup_date # <<>>
  /\ fn_out.parsed.value.result.records[1].del_date # <<>>
  /\ fn_out.parsed.value.result.records[1].description # <<>>
  /\ fn_out.parsed.value.result.records[2].pickup_date = <<>>
  /\ fn_out.parsed.value.result.records[2].del_date = <<>>
  /\ fn_out.parsed.value.result.records[2].description = <<>>


(***************************************************************************)
(* Template-2 ship_to: parse_pdf on documents whose Stop blocks carry      *)
(* destinations that do and do not start with their own stop number, and   *)
(* whose vendor names do and do not end with a numbered segment.           *)
(***************************************************************************)
StopOneNamedTwo == <<"S", "t", "o", "p", ":", " ", "1", " ", "D", "e", "s", "t", "i", "n", "a", "t", "i", "o", "n", ":", " ", "2", ",", " ", "S", "B", " ", "S", "t", "o", "p", " ", "L", "o", "c", "a", "t", "i", "o", "n", " ", "M", "e", "m", "o", ":", "\n">>

StopOneNamedTwentyTwo == <<"S", "t", "o", "p", ":", " ", "1", " ", "D", "e", "s", "t", "i", "n", "a", "t", "i", "o", "n", ":", " ", "2", "2", ",", " ", "N", "O", " ", "S", "t", "o", "p", " ", "L", "o", "c", "a", "t", "i", "o", "n", " ", "M", "e", "m", "o", ":", "\n">>

StopTwoNamedTwo == <<"S", "t", "o", "p", ":", " ", "2", " ", "D", "e", "s", "t", "i", "n", "a", "t", "i", "o", "n", ":", " ", "2", ",", " ", "X", "X", " ", "S", "t", "o", "p", " ", "L", "o", "c", "a", "t", "i", "o", "n", " ", "M", "e", "m", "o", ":", "\n">>

StopThreeNamedTwo == <<"S", "t", "o", "p", ":", " ", "3", " ", "D", "e", "s", "t", "i", "n", "a", "t", "i", "o", "n", ":", " ", "2", ",", " ", "Y", "Y", " ", "S", "t", "o", "p", " ", "L", "o", "c", "a", "t", "i", "o", "n", " ", "M", "e", "m", "o", ":", "\n">>

StopTwoNamedOne == <<"S", "t", "o", "p", ":", " ", "2", " ", "D", "e", "s", "t", "i", "n", "a", "t", "i", "o", "n", ":", " ", "1", ",", " ", "W", "A", " ", "S", "t", "o", "p", " ", "L", "o", "c", "a", "t", "i", "o", "n", " ", "M", "e", "m", "o", ":", "\n">>

\* the Stop blocks of a document: none, in step with their numbers, out of step, with
\* two destinations of one number behind a longer number, and with a gap at Stop 1
ShipToTables ==
  {<<>>, <<Stop1Block, Stop2Block>>, <<StopOneNamedTwo>>,
   <<StopOneNamedTwentyTwo, StopTwoNamedTwo, StopThreeNamedTwo>>, <<StopTwoNamedOne>>}

\* a vendor name without a numbered segment
ShipToItemPlain == <<"4", "4", "4", "4", "4", "4", " ", "-", " ", "S", "m", "u", "c", "k", "e", "r", " ", "F", "o", "o", "d", "s", " ", "C", "u", "b", "e", ":", " ", "1", " ", "W", "e", "i", "g", "h", "t", ":", " ", "2", " ", "P", "i", "e", "c", "e", "s", ":", " ", "3", " ", "A", "B", "C", "-", "P", "O", "-", "1", "0", "-", "2", "0", "2", "5", "-", "4", "\n">>

\* a numbered segment whose location runs over two lines
ShipToItemTwo == <<"5", "5", "5", "5", "5", "5", " ", "-", " ", "A", "g", "r", "o", "p", "u", "r", " ", "-", " ", "2", " ", "-", " ", "T", "R", "A", "\n", "L", "o", "c", " ", "C", "u", "b", "e", ":", " ", "1", " ", "W", "e", "i", "g", "h", "t", ":", " ", "2", " ", "P", "i", "e", "c", "e", "s", ":", " ", "3", " ", "A", "B", "C", "-", "P", "O", "-", "1", "0", "-", "2", "0", "2", "5", "-", "5", "\n">>

\* two numbered segments
ShipToItemTwice == <<"6", "6", "6", "6", "6", "6", " ", "-", " ", "B", "o", "l", "t", " ", "-", " ", "1", " ", "-", " ", "X", " ", "-", " ", "2", " ", "-", " ", "Y", " ", "C", "u", "b", "e", ":", " ", "1", " ", "W", "e", "i", "g", "h", "t", ":", " ", "2", " ", "P", "i", "e", "c", "e", "s", ":", " ", "3", " ", "A", "B", "C", "-", "P", "O", "-", "1", "0", "-", "2", "0", "2", "5", "-", "6", "\n">>

\* a number between dashes with no location after it
ShipToItemBare == <<"7", "7", "7", "7", "7", "7", " ", "-", " ", "O", "d", "d", " ", "-", " ", "2", " ", "-", " ", "C", "u", "b", "e", ":", " ", "1", " ", "W", "e", "i", "g", "h", "t", ":", " ", "2", " ", "P", "i", "e", "c", "e", "s", ":", " ", "3", " ", "A", "B", "C", "-", "P", "O", "-", "1", "0", "-", "2", "0", "2", "5", "-", "7", "\n">>

ShipToItems == {ShipToItemPlain, ShipToItemTwo, ShipToItemTwice, ShipToItemBare}

\* the pickup stamp that makes detect_template choose Template-2
ShipToStamp == <<"P", "i", "c", "k", "u", "p", ":", " ", "O", "c", "t", " ", "2", ",", " ", "2", "0", "2", "5", " ", "1", ":", "0", "0", ":", "0", "0", " ", "A", "M", "\n">>

MaxShipToItems == 2

ShipToDocs == [blocks : ShipToTables, items : SeqsUpTo(ShipToItems, MaxShipToItems)]

ShipToText(doc) == Concat(doc.blocks) \o Concat(doc.items) \o ShipToStamp

\* the document as the one file of the directory, parsed at time 0
ParseShipToDoc(doc) ==
  [table  |-> extract_stop_destinations(ShipToText(doc)),
   parsed |-> parse_pdf(<<PdfOf(ShipToText(doc))>>, PathStr(1), 0)]

InitShipTo == FnInit("parse_pdf", ShipToDocs)

ParseShipTo ==
  /\ fn_pc = "parse_pdf"
  /\ fn_pc' = "parsed"
  /\ fn_out' = ParseShipToDoc(fn_in)
  /\ UNCHANGED fn_in
  /\ UNCHANGED main_vars

SpecShipTo == InitShipTo /\ [][ParseShipTo]_vars


\* the first position from i on whose character is not in cs, Len(s) + 1 when none
SkipWhile(s, i, cs) == MinOf({k \in i..(Len(s) + 1) : k = Len(s) + 1 \/ s[k] \notin cs})

\* a segment "- <number> - <location>" from position p to the end of s: the positions
\* of its number, of the character after the number, and of its second dash
SegNumStart(s, p) == SkipWhile(s, p + 1, SpaceSet)

SegNumEnd(s, p) == SkipWhile(s, SegNumStart(s, p), Digits)

SegDash(s, p) == SkipWhile(s, SegNumEnd(s, p), SpaceSet)

IsSegment(s, p) ==
  /\ s[p] = "-"
  /\ SegNumEnd(s, p) > SegNumStart(s, p)
  /\ SegDash(s, p) < Len(s)
  /\ s[SegDash(s, p)] = "-"

SegmentStarts(s) == {p \in DOMAIN s : IsSegment(s, p)}

\* the stop number of the trailing segment of s, the longest one when a location holds
\* a numbered segment of its own
SegmentNumber(s) ==
  SubSeq(s, SegNumStart(s, MinOf(SegmentStarts(s))), SegNumEnd(s, MinOf(SegmentStarts(s))) - 1)

\* dest begins with "<number>,"
BeginsWithNumber(dest, number) ==
  /\ Len(dest) > Len(number)
  /\ SubSeq(dest, 1, Len(number) + 1) = number \o <<",">>

\* the first entry of the table that begins with the stop number of the trailing
\* segment of the vendor-name block, <<>> without such a segment or such an entry
ResolvedShipTo(block, table) ==
  LET First(hits) == IF hits = {} THEN <<>> ELSE table[MinOf(hits)]
  IN  IF SegmentStarts(block) = {} THEN <<>>
      ELSE First({e \in DOMAIN table : BeginsWithNumber(table[e], SegmentNumber(block))})

\* C12: every line item of a Template-2 document yields a record; its ship_to is the
\* lowest-index entry of the stop table whose text begins with "<stop-number>," for the
\* stop number of the trailing "- <stop-number> - <location>" segment of the item's
\* vendor-name block as captured, and is empty when the block has no such segment or
\* the table no such entry; its ship_from is the first entry of the table, empty when
\* the table is empty.
C12_ShipToIsFirstEntryOfStopNumber ==
  fn_pc = "parsed" =>
    /\ ~fn_out.table.raised
    /\ Template2Parsed
    /\ Len(fn_out.parsed.value.result.records) = CountFound(shipment_pattern, ShipToText(fn_in))
    /\ \A k \in DOMAIN fn_out.parsed.value.result.records :
         /\ fn_out.parsed.value.result.records[k].ship_to =
              ResolvedShipTo(KthFound(shipment_pattern, ShipToText(fn_in), k, 2),
                             fn_out.table.val)
         /\ fn_out.parsed.value.result.records[k].ship_from =
              (IF Len(fn_out.table.val) > 0 THEN fn_out.table.val[1] ELSE <<>>)

\* a table with a "22," entry before two "2," entries: the item of stop 2 takes the
\* first "2," entry, at index 2, and the item without a segment takes none
C12_SecondOfThreeEntriesChosen ==
  /\ Template2Parsed
  /\ Len(fn_out.table.val) = 3
  /\ BeginsWithNumber(fn_out.table.val[2], <<"2">>)
  /\ BeginsWithNumber(fn_out.table.val[3], <<"2">>)
  /\ Len(fn_out.parsed.value.result.records) = 2
  /\ fn_out.parsed.value.result.records[1].vendor_no = <<"5", "5", "5", "5", "5", "5">>
  /\ fn_out.parsed.value.result.records[1].ship_to = fn_out.table.val[2]
  /\ fn_out.parsed.value.result.records[1].ship_from = fn_out.table.val[1]
  /\ fn_out.parsed.value.result.records[2].vendor_no = <<"4", "4", "4", "4", "4", "4">>
  /\ fn_out.parsed.value.result.records[2].ship_to = <<>>

====
